---- MODULE Spec2Model ----
(***************************************************************************)
(* State-machine model of the aiops-testing-webapp HTTP handlers:          *)
(*   app/auth.py          password hashing, token issue and verification   *)
(*   app/api/auth.py      session resolver, login, /me, register, delete   *)
(*   app/api/settings.py  settings store and connection prober             *)
(*   app/api/test_suites.py  suites and their test counts                  *)
(*   scripts/create_admin.py                                               *)
(* The relational store is the shared state; every handler is an action,   *)
(* split at the awaits where another request can interleave.               *)
(***************************************************************************)
EXTENDS Integers, Sequences, FiniteSets, TLC

VARIABLES
    users,      \* rows of the users table
    nextId,     \* next value of the users.id sequence
    tokens,     \* bearer tokens issued so far (clients can present any of them)
    now,        \* wall clock, in minutes
    pend,       \* per client: the request in flight between two awaits
    resp,       \* the last response sent (or the last environment event)
    settings,   \* rows of the settings table
    outbound,   \* outbound HTTP requests issued by the connection prober
    suites,     \* rows of the test_suites table
    cases,      \* rows of the test_cases table
    runs        \* rows of the test_runs table

vars == <<users, nextId, tokens, now, pend, resp, settings, outbound, suites, cases, runs>>

(***************************** bounds **************************************)
MaxUsers == 3
MaxTokens == 2
MaxTicks == 1
\* minutes per clock step: one step takes a token issued before it past its expiry
TickMinutes == 40
MaxOutbound == 2
MaxSuites == 2
MaxCases == 3
MaxRuns == 1

(*************************** input domains *********************************)
Clients == {"c1", "c2"}
Usernames == {"admin", "alice"}
Emails == {"admin@aiops.local", "alice@example.com"}
Passwords == {"admin", "pw"}

(* Optional[T]: None is the empty tuple, a value v is <<v>>. *)
None == <<>>
Some(v) == <<v>>
IsNone(x) == x = <<>>

Idle == [op |-> "idle"]

(************************* app/auth.py *************************************)
SECRET_KEY == "your-secret-key-change-in-production"
ACCESS_TOKEN_EXPIRE_MINUTES == 30


\* bcrypt digest of a password (salt left out: verify only compares digests)
get_password_hash(password) == <<"$2b$", password>>

verify_password(plain_password, hashed_password) ==
    hashed_password = get_password_hash(plain_password)

\* jwt.encode(to_encode, SECRET_KEY): the claims, signed with the key.
\* issued_to is history only (the account the token was created for); no
\* handler reads it.
\* expires_delta is None or a number of minutes; "if expires_delta:" is false
\* for None and for a zero timedelta.  to_encode is data with exp set.
create_access_token_expires(data, expires_delta, t, uid) ==
    LET expire == IF IsNone(expires_delta) \/ expires_delta[1] = 0
                  THEN t + ACCESS_TOKEN_EXPIRE_MINUTES
                  ELSE t + expires_delta[1]
    IN
    [claims |-> [k \in DOMAIN data \cup {"exp"} |-> IF k = "exp" THEN expire ELSE data[k]],
     key |-> SECRET_KEY,
     issued_to |-> uid]

\* the call without expires_delta
create_access_token(data, t, uid) ==
    create_access_token_expires(data, None, t, uid)

\* a string that is not three signed segments
MalformedToken == [raw |-> "invalid_token"]

\* mutant: the exp claim is not checked
verify_token_NoExpiry(token, t) ==
    IF "key" \in DOMAIN token /\ token.key = SECRET_KEY
    THEN Some(token.claims)
    ELSE None

\* mutant: the signature is not checked
verify_token_NoSignature(token, t) ==
    IF "key" \in DOMAIN token /\ t <= token.claims.exp
    THEN Some(token.claims)
    ELSE None

\* jwt.decode: JWTError (None) on a malformed token, a bad signature or an
\* expired token
verify_token(token, t) ==
    IF /\ "key" \in DOMAIN token
       /\ token.key = SECRET_KEY
       /\ "exp" \in DOMAIN token.claims => t <= token.claims.exp
    THEN Some(token.claims)
    ELSE None

\* a token no key holder signed
ForgedToken ==
    [claims |-> [sub |-> "admin", exp |-> MaxTicks * TickMinutes + ACCESS_TOKEN_EXPIRE_MINUTES],
     key |-> "invalid_token",
     issued_to |-> 0]

(************************* users table *************************************)
User(id, username, email, hashed_password, is_admin, is_active) ==
    [id |-> id, username |-> username, email |-> email,
     hashed_password |-> hashed_password,
     is_admin |-> is_admin, is_active |-> is_active, last_login |-> None]

\* select(User).where(User.username == username) ... scalar_one_or_none()
UserByName(us, username) ==
    IF \E u \in us : u.username = username
    THEN Some(CHOOSE u \in us : u.username = username)
    ELSE None

\* mutant: the email is looked up in the username column
UserByEmail_WrongColumn(us, email) ==
    UserByName(us, email)

UserByEmail(us, email) ==
    IF \E u \in us : u.email = email
    THEN Some(CHOOSE u \in us : u.email = email)
    ELSE None

UserById(us, id) ==
    IF \E u \in us : u.id = id
    THEN Some(CHOOSE u \in us : u.id = id)
    ELSE None

\* mutant: the columns carry no unique index
UniqueOK_NoIndex(us, u) ==
    TRUE

\* the unique indexes on users.username and users.email
UniqueOK(us, u) ==
    \A v \in us : v.username # u.username /\ v.email # u.email

(********************** app/api/auth.py: session resolver ******************)
\* what a client sends with a request: the access_token cookie and the
\* Authorization: Bearer header, each absent or holding a token
Request(cookie, header) == [cookie |-> cookie, header |-> header]

Presentable == {None} \cup {Some(t) : t \in tokens \cup {ForgedToken}}
Requests ==
    {Request(ck, None) : ck \in Presentable} \cup {Request(None, hd) : hd \in Presentable}

\* payload.get(key)
DictGet(payload, key) ==
    IF key \in DOMAIN payload THEN Some(payload[key]) ELSE None

\* mutant: an inactive account is not resolved
get_current_user_ActiveOnly(us, t, request) ==
    LET token == request.cookie IN
    IF IsNone(token) THEN None
    ELSE LET payload == verify_token(token[1], t) IN
         IF IsNone(payload) THEN None
         ELSE LET username == DictGet(payload[1], "sub") IN
              IF IsNone(username) \/ username[1] = "" THEN None
              ELSE LET user == UserByName(us, username[1]) IN
                   IF ~IsNone(user) /\ ~user[1].is_active THEN None ELSE user

get_current_user(us, t, request) ==
    LET token == request.cookie IN
    IF IsNone(token) THEN None
    ELSE LET payload == verify_token(token[1], t) IN
         IF IsNone(payload) THEN None
         ELSE LET username == DictGet(payload[1], "sub") IN
              IF IsNone(username) \/ username[1] = "" THEN None
              ELSE UserByName(us, username[1])

(************************* responses ***************************************)
Response(op, c, req, status, detail, body) ==
    [op |-> op, client |-> c, req |-> req,
     status |-> status, detail |-> detail, body |-> body]

\* a handler suspended at an await, or a change made outside the HTTP API
Event(op, c) == [op |-> op, client |-> c]

AuthFrame == UNCHANGED <<settings, outbound, suites, cases, runs>>

(************************* POST /auth/token ********************************)
\* mutant: the password is not verified
CredentialsOK_AnyPassword(user, password) ==
    ~IsNone(user)

CredentialsOK(user, password) ==
    /\ ~IsNone(user)
    /\ verify_password(password, user[1].hashed_password)

login_for_access_token(c, username, password) ==
    LET user == UserByName(users, username)
        req == [username |-> username, password |-> password]
    IN
    /\ pend[c] = Idle
    /\ IF ~CredentialsOK(user, password)
       THEN /\ resp' = Response("token", c, req, 401, "Invalid credentials", None)
            /\ UNCHANGED <<users, tokens>>
       ELSE IF ~user[1].is_active
       THEN /\ resp' = Response("token", c, req, 401, "Inactive account", None)
            /\ UNCHANGED <<users, tokens>>
       ELSE LET access_token == create_access_token([sub |-> user[1].username], now, user[1].id) IN
            /\ Cardinality(tokens \cup {access_token}) <= MaxTokens
            /\ users' = (users \ {user[1]}) \cup {[user[1] EXCEPT !.last_login = Some(now)]}
            /\ tokens' = tokens \cup {access_token}
            /\ resp' = Response("token", c, req, 200, "",
                                Some([access_token |-> access_token, token_type |-> "bearer"]))
    /\ UNCHANGED <<nextId, now, pend>>
    /\ AuthFrame

(************************* POST /auth/login, GET /auth/logout **************)
\* the login form: the token comes back in the access_token cookie
login(c, username, password) ==
    LET user == UserByName(users, username)
        req == [username |-> username, password |-> password]
    IN
    /\ pend[c] = Idle
    /\ IF ~CredentialsOK(user, password)
       THEN /\ resp' = Response("login", c, req, 401, "Invalid username or password", None)
            /\ UNCHANGED <<users, tokens>>
       ELSE IF ~user[1].is_active
       THEN /\ resp' = Response("login", c, req, 401, "Account is inactive", None)
            /\ UNCHANGED <<users, tokens>>
       ELSE LET access_token == create_access_token([sub |-> user[1].username], now, user[1].id) IN
            /\ Cardinality(tokens \cup {access_token}) <= MaxTokens
            /\ users' = (users \ {user[1]}) \cup {[user[1] EXCEPT !.last_login = Some(now)]}
            /\ tokens' = tokens \cup {access_token}
            /\ resp' = Response("login", c, req, 302, "",
                                Some([location |-> "/dashboard",
                                      set_cookie |-> Some(access_token)]))
    /\ UNCHANGED <<nextId, now, pend>>
    /\ AuthFrame

\* the response tells the browser to drop the cookie; the handler reads and
\* writes nothing else
logout(c, request) ==
    /\ pend[c] = Idle
    /\ resp' = Response("logout", c, request, 302, "",
                        Some([location |-> "/auth/login", set_cookie |-> None]))
    /\ UNCHANGED <<users, nextId, tokens, now, pend>>
    /\ AuthFrame

(************** login handlers, one step per database round trip **********)
\* the two 401 details and the success status of each login route
LoginDetails(route) ==
    IF route = "login"
    THEN [bad |-> "Invalid username or password", inactive |-> "Account is inactive"]
    ELSE [bad |-> "Invalid credentials", inactive |-> "Inactive account"]

\* await db.execute(select(User).where(User.username == username)), the
\* credential checks, and user.last_login = datetime.utcnow()
LoginSelect(c, route, username, password) ==
    LET user == UserByName(users, username)
        req == [username |-> username, password |-> password]
    IN
    /\ pend[c] = Idle
    /\ IF ~CredentialsOK(user, password)
       THEN /\ resp' = Response(route, c, req, 401, LoginDetails(route).bad, None)
            /\ UNCHANGED pend
       ELSE IF ~user[1].is_active
       THEN /\ resp' = Response(route, c, req, 401, LoginDetails(route).inactive, None)
            /\ UNCHANGED pend
       ELSE /\ Cardinality(tokens) < MaxTokens
            /\ resp' = Event("await", c)
            /\ pend' = [pend EXCEPT ![c] =
                          [op |-> "login", pc |-> "commit", route |-> route, req |-> req,
                           user |-> [user[1] EXCEPT !.last_login = Some(now)]]]
    /\ UNCHANGED <<users, nextId, tokens, now>>
    /\ AuthFrame

login_begin(c, username, password) == LoginSelect(c, "login", username, password)

login_for_access_token_begin(c, username, password) ==
    LoginSelect(c, "token", username, password)

\* mutant: the UPDATE stamps every row
LastLoginWritten_AllRows(us, user) ==
    {[u EXCEPT !.last_login = user.last_login] : u \in us}

\* UPDATE users SET last_login = ? WHERE users.id = ?
LastLoginWritten(us, user) ==
    {IF u.id = user.id THEN [u EXCEPT !.last_login = user.last_login] ELSE u : u \in us}

\* await db.commit()
login_commit(c) ==
    /\ pend[c].op = "login"
    /\ pend[c].pc = "commit"
    /\ IF \E u \in users : u.id = pend[c].user.id
       THEN /\ users' = LastLoginWritten(users, pend[c].user)
            /\ resp' = Event("login_commit", c)
            /\ pend' = [pend EXCEPT ![c].pc = "token"]
       ELSE \* StaleDataError: the UPDATE matched no row
            /\ resp' = Response(pend[c].route, c, pend[c].req, 500, "Internal Server Error", None)
            /\ pend' = [pend EXCEPT ![c] = Idle]
            /\ UNCHANGED users
    /\ UNCHANGED <<nextId, tokens, now>>
    /\ AuthFrame

\* create_access_token(data={"sub": user.username}) and the response
login_finish(c) ==
    LET user == pend[c].user
        access_token == create_access_token([sub |-> user.username], now, user.id)
    IN
    /\ pend[c].op = "login"
    /\ pend[c].pc = "token"
    /\ tokens' = tokens \cup {access_token}
    /\ resp' = IF pend[c].route = "login"
               THEN Response("login", c, pend[c].req, 302, "",
                             Some([location |-> "/dashboard",
                                   set_cookie |-> Some(access_token)]))
               ELSE Response("token", c, pend[c].req, 200, "",
                             Some([access_token |-> access_token, token_type |-> "bearer"]))
    /\ pend' = [pend EXCEPT ![c] = Idle]
    /\ UNCHANGED <<users, nextId, now>>
    /\ AuthFrame

(************************* GET /auth/me ************************************)
UserInfo(current_user) ==
    [id |-> current_user.id,
     username |-> current_user.username,
     email |-> current_user.email,
     is_admin |-> current_user.is_admin,
     last_login |-> current_user.last_login]

get_current_user_info(c, request) ==
    LET current_user == get_current_user(users, now, request) IN
    /\ pend[c] = Idle
    /\ IF IsNone(current_user)
       THEN resp' = Response("me", c, request, 401, "Not authenticated", None)
       ELSE resp' = Response("me", c, request, 200, "", Some(UserInfo(current_user[1])))
    /\ UNCHANGED <<users, nextId, tokens, now, pend>>
    /\ AuthFrame

(************************* POST /auth/register *****************************)
\* the form a client posts: the handler declares username, email and
\* password; a form may carry other fields (is_admin), which it never reads
register_user_form(c, form) ==
    /\ pend[c] = Idle
    /\ IF ~IsNone(UserByName(users, form.username))
       THEN /\ resp' = Response("register", c, form, 400, "Username already exists", None)
            /\ UNCHANGED pend
       ELSE /\ resp' = Event("await", c)
            /\ pend' = [pend EXCEPT ![c] = [op |-> "register", pc |-> "email", req |-> form]]
    /\ UNCHANGED <<users, nextId, tokens, now>>
    /\ AuthFrame

\* a form with the three declared fields only
register_user_begin(c, username, email, password) ==
    register_user_form(c, [username |-> username, email |-> email, password |-> password])

register_user_check_email(c) ==
    /\ pend[c].op = "register"
    /\ pend[c].pc = "email"
    /\ IF ~IsNone(UserByEmail(users, pend[c].req.email))
       THEN /\ resp' = Response("register", c, pend[c].req, 400, "Email already exists", None)
            /\ pend' = [pend EXCEPT ![c] = Idle]
       ELSE /\ resp' = Event("await", c)
            /\ pend' = [pend EXCEPT ![c].pc = "commit"]
    /\ UNCHANGED <<users, nextId, tokens, now>>
    /\ AuthFrame

\* mutant: the new user's is_admin is taken from the form
RegisteredUser_TrustsForm(id, req) ==
    User(id, req.username, req.email, get_password_hash(req.password),
         IF "is_admin" \in DOMAIN req THEN req.is_admin ELSE FALSE, TRUE)

\* new_user = User(..., is_admin=False, is_active=True)
RegisteredUser(id, req) ==
    User(id, req.username, req.email, get_password_hash(req.password), FALSE, TRUE)

register_user_commit(c) ==
    LET req == pend[c].req
        new_user == RegisteredUser(nextId, req)
    IN
    /\ pend[c].op = "register"
    /\ pend[c].pc = "commit"
    /\ nextId <= MaxUsers
    /\ IF UniqueOK(users, new_user)
       THEN /\ users' = users \cup {new_user}
            /\ nextId' = nextId + 1
            /\ resp' = Response("register", c, req, 200, "",
                                Some([id |-> new_user.id, username |-> new_user.username,
                                      email |-> new_user.email,
                                      message |-> "User created successfully"]))
       ELSE \* IntegrityError out of db.commit(): an unhandled exception
            /\ resp' = Response("register", c, req, 500, "Internal Server Error", None)
            /\ UNCHANGED <<users, nextId>>
    /\ pend' = [pend EXCEPT ![c] = Idle]
    /\ UNCHANGED <<tokens, now>>
    /\ AuthFrame

(************************* GET /auth/users *********************************)
\* order_by(User.created_at.desc()): created_at grows with the id
NewestFirst(us) ==
    CHOOSE q \in [1..Cardinality(us) -> us] :
        \A i, j \in 1..Cardinality(us) : i < j => q[i].id > q[j].id

UserRow(u) ==
    [id |-> u.id, username |-> u.username, email |-> u.email,
     is_admin |-> u.is_admin, is_active |-> u.is_active, last_login |-> u.last_login]

list_users(c, request) ==
    LET current_user == get_current_user(users, now, request) IN
    /\ pend[c] = Idle
    /\ IF IsNone(current_user)
       THEN resp' = Response("list_users", c, request, 401, "Not authenticated", None)
       ELSE IF ~current_user[1].is_admin
       THEN resp' = Response("list_users", c, request, 403, "Admin access required", None)
       ELSE resp' = Response("list_users", c, request, 200, "",
                             Some([i \in 1..Cardinality(users) |->
                                      UserRow(NewestFirst(users)[i])]))
    /\ UNCHANGED <<users, nextId, tokens, now, pend>>
    /\ AuthFrame

(************************* DELETE /auth/users/{user_id} ********************)
UserIds == 1..MaxUsers

\* mutant: the target is looked up before the caller's role is checked
DeleteCheck_NotFoundFirst(current_user, user) ==
    IF IsNone(current_user) THEN <<401, "Not authenticated">>
    ELSE IF IsNone(user) THEN <<404, "User not found">>
    ELSE IF ~current_user[1].is_admin THEN <<403, "Admin access required">>
    ELSE IF user[1].id = current_user[1].id THEN <<400, "Cannot delete yourself">>
    ELSE <<0, "">>

\* mutant: the caller may delete its own account
DeleteCheck_NoSelfCheck(current_user, user) ==
    IF IsNone(current_user) THEN <<401, "Not authenticated">>
    ELSE IF ~current_user[1].is_admin THEN <<403, "Admin access required">>
    ELSE IF IsNone(user) THEN <<404, "User not found">>
    ELSE <<0, "">>

\* require_auth, then the handler's checks in their order; 0: go on to the delete
DeleteCheck(current_user, user) ==
    IF IsNone(current_user) THEN <<401, "Not authenticated">>
    ELSE IF ~current_user[1].is_admin THEN <<403, "Admin access required">>
    ELSE IF IsNone(user) THEN <<404, "User not found">>
    ELSE IF user[1].id = current_user[1].id THEN <<400, "Cannot delete yourself">>
    ELSE <<0, "">>

delete_user_begin(c, request, user_id) ==
    LET current_user == get_current_user(users, now, request)
        user == UserById(users, user_id)
        req == [cookie |-> request.cookie, header |-> request.header, user_id |-> user_id]
        check == DeleteCheck(current_user, user)
    IN
    /\ pend[c] = Idle
    /\ IF check[1] # 0
       THEN /\ resp' = Response("delete", c, req, check[1], check[2], None)
            /\ UNCHANGED pend
       ELSE /\ resp' = Event("await", c)
            /\ pend' = [pend EXCEPT ![c] = [op |-> "delete", pc |-> "commit",
                                            req |-> req, user |-> user[1]]]
    /\ UNCHANGED <<users, nextId, tokens, now>>
    /\ AuthFrame

delete_user_commit(c) ==
    LET user == pend[c].user IN
    /\ pend[c].op = "delete"
    /\ pend[c].pc = "commit"
    /\ IF \E u \in users : u.id = user.id
       THEN /\ users' = {u \in users : u.id # user.id}
            /\ resp' = Response("delete", c, pend[c].req, 200, "",
                                Some([message |-> <<"User", user.username, "deleted successfully">>]))
       ELSE \* the row is gone: the DELETE matches no row and the flush raises
            /\ resp' = Response("delete", c, pend[c].req, 500, "Internal Server Error", None)
            /\ UNCHANGED users
    /\ pend' = [pend EXCEPT ![c] = Idle]
    /\ UNCHANGED <<nextId, tokens, now>>
    /\ AuthFrame

(************************* scripts/create_admin.py *************************)
create_admin_user ==
    LET existing_admin == UserByName(users, "admin")
        admin_user == User(nextId, "admin", "admin@aiops.local",
                           get_password_hash("admin"), TRUE, TRUE)
    IN
    /\ IF ~IsNone(existing_admin)
       THEN /\ resp' = Event("create_admin_exists", "script")
            /\ UNCHANGED <<users, nextId>>
       ELSE /\ nextId <= MaxUsers
            /\ IF UniqueOK(users, admin_user)
               THEN /\ users' = users \cup {admin_user}
                    /\ nextId' = nextId + 1
                    /\ resp' = Event("create_admin_created", "script")
               ELSE /\ resp' = Event("create_admin_error", "script")
                    /\ UNCHANGED <<users, nextId>>
    /\ UNCHANGED <<tokens, now, pend>>
    /\ AuthFrame

(************************* environment *************************************)
\* claim sets handed to create_access_token
ClaimSets ==
    {[sub |-> "admin"], [sub |-> "alice"], [sub |-> ""], [role |-> "viewer"],
     [sub |-> "admin", role |-> "viewer"]}

ExpiresDeltas == {None, Some(0), Some(10)}

\* the instants the clock can show
Instants == {k * TickMinutes : k \in 0..MaxTicks}

\* a holder of the signing key issues a token for a claim set of its choice
issue_token(data) ==
    LET access_token == create_access_token(data, now, 0) IN
    /\ access_token \notin tokens
    /\ Cardinality(tokens) < MaxTokens
    /\ tokens' = tokens \cup {access_token}
    /\ resp' = [op |-> "issue_token", client |-> "issuer", req |-> data, token |-> access_token]
    /\ UNCHANGED <<users, nextId, now, pend>>
    /\ AuthFrame

\* verify_token applied to what became of create_access_token(data): the
\* token as issued at issued_at, with its signature replaced, or garbage
verify_round_trip(data, expires_delta, issued_at, kind) ==
    LET token == create_access_token_expires(data, expires_delta, issued_at, 0)
        presented == CASE kind = "issued" -> token
                       [] kind = "bad_signature" -> [token EXCEPT !.key = "another-secret-key"]
                       [] kind = "malformed" -> MalformedToken
        req == [data |-> data, expires_delta |-> expires_delta, issued_at |-> issued_at,
                kind |-> kind, token |-> presented]
    IN
    /\ issued_at <= now
    /\ resp' = [op |-> "verify_token", client |-> "issuer", req |-> req,
                result |-> verify_token(presented, now)]
    /\ UNCHANGED <<users, nextId, tokens, now, pend>>
    /\ AuthFrame

\* an operator clears users.is_active in the store; no HTTP route does it
DeactivateUser(id) ==
    /\ \E u \in users :
          /\ u.id = id
          /\ u.is_active
          /\ users' = (users \ {u}) \cup {[u EXCEPT !.is_active = FALSE]}
    /\ resp' = Event("deactivate", "operator")
    /\ UNCHANGED <<nextId, tokens, now, pend>>
    /\ AuthFrame

\* an operator sets users.is_admin in the store; no HTTP route does it
PromoteUser(id) ==
    /\ \E u \in users :
          /\ u.id = id
          /\ ~u.is_admin
          /\ users' = (users \ {u}) \cup {[u EXCEPT !.is_admin = TRUE]}
    /\ resp' = Event("promote", "operator")
    /\ UNCHANGED <<nextId, tokens, now, pend>>
    /\ AuthFrame

Tick ==
    /\ now < MaxTicks * TickMinutes
    /\ now' = now + TickMinutes
    /\ resp' = Event("tick", "clock")
    /\ UNCHANGED <<users, nextId, tokens, pend>>
    /\ AuthFrame

(************************* app/api/settings.py *****************************)
Fields ==
    {"aiops_url", "api_token", "ssh_host", "ssh_port", "test_path", "timeout",
     "parallel_execution", "max_parallel", "retry_failed", "retry_count"}

\* SettingsUpdate: the fields typed "T | None" accept null
SchemaOptional == {"aiops_url", "api_token", "ssh_host", "ssh_port", "test_path", "timeout"}

\* SettingsUpdate: the value of a field the request leaves out
SchemaDefault ==
    [aiops_url |-> None, api_token |-> None, ssh_host |-> None, ssh_port |-> Some(22),
     test_path |-> None, timeout |-> Some(30), parallel_execution |-> Some(FALSE),
     max_parallel |-> Some(5), retry_failed |-> Some(FALSE), retry_count |-> Some(3)]

\* a request body is a JSON object: a field is left out, null (None) or a value
SchemaAccepts(raw) ==
    \A f \in DOMAIN raw : IsNone(raw[f]) => f \in SchemaOptional

SettingsUpdate(raw) ==
    [f \in Fields |-> IF f \in DOMAIN raw THEN raw[f] ELSE SchemaDefault[f]]

\* app/models/settings.py: the columns declared nullable=False
NotNullable == {"timeout", "parallel_execution", "max_parallel", "retry_failed", "retry_count"}

\* Python's "x or default" on a nullable string / integer column
OrStr(x, default) == IF IsNone(x) \/ x[1] = "" THEN default ELSE x[1]
OrInt(x, default) == IF IsNone(x) \/ x[1] = 0 THEN default ELSE x[1]

\* mutant: the defaults of the schema's Optional fields are left null
DefaultSettings_NullPort ==
    [aiops_url |-> "", api_token |-> "", ssh_host |-> "", ssh_port |-> 0,
     test_path |-> "", timeout |-> 0, parallel_execution |-> FALSE,
     max_parallel |-> 5, retry_failed |-> FALSE, retry_count |-> 3]

DefaultSettings ==
    [aiops_url |-> "", api_token |-> "", ssh_host |-> "", ssh_port |-> 22,
     test_path |-> "", timeout |-> 30, parallel_execution |-> FALSE,
     max_parallel |-> 5, retry_failed |-> FALSE, retry_count |-> 3]

SettingsView(row) ==
    [aiops_url |-> OrStr(row.aiops_url, ""),
     api_token |-> OrStr(row.api_token, ""),
     ssh_host |-> OrStr(row.ssh_host, ""),
     ssh_port |-> OrInt(row.ssh_port, 22),
     test_path |-> OrStr(row.test_path, ""),
     timeout |-> OrInt(row.timeout, 30),
     parallel_execution |-> row.parallel_execution[1],
     max_parallel |-> row.max_parallel[1],
     retry_failed |-> row.retry_failed[1],
     retry_count |-> row.retry_count[1]]

SettingsFrame == UNCHANGED <<users, nextId, tokens, now, suites, cases, runs>>

\* GET /api/settings
get_settings(c, request) ==
    /\ pend[c] = Idle
    /\ IF Len(settings) = 0
       THEN resp' = Response("get_settings", c, request, 200, "", Some(DefaultSettings))
       ELSE resp' = Response("get_settings", c, request, 200, "", Some(SettingsView(settings[1])))
    /\ UNCHANGED <<pend, settings, outbound>>
    /\ SettingsFrame

\* POST /api/settings, up to the select: the body is validated and the
\* caller resolved before the handler runs
save_settings_begin(c, request, raw) ==
    LET req == [cookie |-> request.cookie, header |-> request.header, payload |-> raw] IN
    /\ pend[c] = Idle
    /\ IF ~SchemaAccepts(raw)
       THEN /\ resp' = Response("save_settings", c, req, 422, "Unprocessable Entity", None)
            /\ UNCHANGED pend
       ELSE /\ resp' = Event("await", c)
            /\ pend' = [pend EXCEPT ![c] =
                          [op |-> "save", pc |-> "commit", req |-> req,
                           settings_data |-> SettingsUpdate(raw),
                           current_user |-> get_current_user(users, now, request),
                           row |-> IF Len(settings) = 0 THEN 0 ELSE 1,
                           loaded |-> IF Len(settings) = 0 THEN None ELSE Some(settings[1])]]
    /\ UNCHANGED <<settings, outbound>>
    /\ SettingsFrame

\* the row the handler holds after its assignments
AssignedRow(settings_data, current_user) ==
    [f \in Fields \cup {"updated_by"} |->
        IF f = "updated_by" THEN Some(current_user.username) ELSE settings_data[f]]

\* app/models/settings.py: the columns declared with default=
ColumnDefault ==
    [ssh_port |-> Some(22), timeout |-> Some(30), parallel_execution |-> Some(FALSE),
     max_parallel |-> Some(5), retry_failed |-> Some(FALSE), retry_count |-> Some(3)]

\* the INSERT the flush emits leaves out the attributes that are None, so a
\* column with a default gets its default and the others get NULL
InsertedRow(assigned) ==
    [f \in Fields \cup {"updated_by"} |->
        IF IsNone(assigned[f]) /\ f \in DOMAIN ColumnDefault
        THEN ColumnDefault[f]
        ELSE assigned[f]]

\* the UPDATE the flush emits writes the columns whose value differs from the loaded one
FlushedRow(stored, loaded, assigned) ==
    [f \in Fields \cup {"updated_by"} |->
        IF assigned[f] # loaded[f] THEN assigned[f] ELSE stored[f]]

\* POST /api/settings, from the select to the commit
save_settings_commit(c) ==
    LET p == pend[c] IN
    /\ p.op = "save"
    /\ p.pc = "commit"
    /\ IF IsNone(p.current_user)
       THEN \* current_user.username on None: AttributeError, nothing committed
            /\ resp' = Response("save_settings", c, p.req, 500, "Internal Server Error", None)
            /\ UNCHANGED settings
       ELSE LET assigned == AssignedRow(p.settings_data, p.current_user[1])
                written == IF p.row = 0
                           THEN InsertedRow(assigned)
                           ELSE FlushedRow(settings[p.row], p.loaded[1], assigned)
            IN
            IF \E f \in NotNullable : IsNone(written[f])
            THEN \* NOT NULL violation: IntegrityError out of db.commit()
                 /\ resp' = Response("save_settings", c, p.req, 500, "Internal Server Error", None)
                 /\ UNCHANGED settings
            ELSE /\ IF p.row = 0
                    THEN settings' = Append(settings, written)
                    ELSE settings' = [settings EXCEPT ![p.row] = written]
                 /\ resp' = Response("save_settings", c, p.req, 200, "",
                                     Some([message |-> "Settings saved successfully"]))
    /\ pend' = [pend EXCEPT ![c] = Idle]
    /\ UNCHANGED outbound
    /\ SettingsFrame

\* response.text[:200]
ResponseTextLimit == 200

ShortText == <<"o", "k">>
LongText == [i \in 1..250 |-> "x"]
JsonText == <<"{", "}">>

\* what the GET to {url}/health comes back with: a response (status, content
\* type, body text, whether the text parses as JSON) or an exception
HealthResponse(sc, ct, text, json_ok) ==
    [kind |-> "response", status_code |-> sc, content_type |-> ct,
     text |-> text, json_ok |-> json_ok]

ProbeOutcomes ==
    {HealthResponse(200, "application/json", JsonText, TRUE),
     HealthResponse(200, "application/json", ShortText, FALSE),
     HealthResponse(200, "text/plain", ShortText, FALSE),
     HealthResponse(200, "text/plain", LongText, FALSE),
     HealthResponse(204, "text/plain", <<>>, FALSE),
     HealthResponse(404, "application/json", JsonText, TRUE),
     [kind |-> "ConnectError"], [kind |-> "TimeoutException"], [kind |-> "Exception"]}

\* response.json(): the parsed document
ParsedJson(text) == [json |-> text]

\* response.text[:200]
Truncated(text) ==
    IF Len(text) <= ResponseTextLimit THEN text ELSE SubSeq(text, 1, ResponseTextLimit)

\* mutant: a timeout is reported as a connection failure
ExceptionStatus_TimeoutAsConnect(kind) ==
    IF kind \in {"ConnectError", "TimeoutException"}
    THEN <<503, "Cannot connect to the target system">>
    ELSE <<500, "Connection test failed">>

\* the except clauses, in their order
ExceptionStatus(kind) ==
    IF kind = "ConnectError" THEN <<503, "Cannot connect to the target system">>
    ELSE IF kind = "TimeoutException" THEN <<504, "Connection timeout">>
    ELSE <<500, "Connection test failed">>

ProbeResponse(c, req, outcome) ==
    IF outcome.kind = "response"
    THEN IF outcome.status_code = 200
         THEN IF outcome.content_type = "application/json"
              THEN IF outcome.json_ok
                   THEN Response("test_connection", c, req, 200, "",
                                 Some([success |-> TRUE, message |-> "Connection successful",
                                       status_code |-> outcome.status_code,
                                       response |-> ParsedJson(outcome.text)]))
                   ELSE \* response.json() raises inside the try
                        LET e == ExceptionStatus("Exception") IN
                        Response("test_connection", c, req, e[1], e[2], None)
              ELSE Response("test_connection", c, req, 200, "",
                            Some([success |-> TRUE, message |-> "Connection successful",
                                  status_code |-> outcome.status_code,
                                  response |-> Truncated(outcome.text)]))
         ELSE Response("test_connection", c, req, 200, "",
                       Some([success |-> FALSE, message |-> "Connection failed with status",
                             status_code |-> outcome.status_code]))
    ELSE LET e == ExceptionStatus(outcome.kind) IN
         Response("test_connection", c, req, e[1], e[2], None)

\* the response, together with what the target did (history only)
WithProbe(r, outcome) ==
    [f \in DOMAIN r \cup {"probe"} |-> IF f = "probe" THEN outcome ELSE r[f]]

\* mutant: the url is not validated
UrlMissing_Unchecked(url) ==
    FALSE

\* "if not connection_data.url"
UrlMissing(url) ==
    url = ""

\* POST /api/settings/test-connection
test_connection(c, request, url, token) ==
    LET req == [cookie |-> request.cookie, header |-> request.header,
                url |-> url, token |-> token]
    IN
    /\ pend[c] = Idle
    /\ IF UrlMissing(url)
       THEN /\ resp' = Response("test_connection", c, req, 400, "URL is required", None)
            /\ UNCHANGED outbound
       ELSE /\ outbound < MaxOutbound
            /\ outbound' = outbound + 1
            /\ \E outcome \in ProbeOutcomes :
                  resp' = WithProbe(ProbeResponse(c, req, outcome), outcome)
    /\ UNCHANGED <<pend, settings>>
    /\ SettingsFrame

(************************* app/api/test_suites.py **************************)
\* suite names, in the order the database collates them
SuiteNames == <<"API Tests", "UI Tests">>

NameRank(name) == CHOOSE i \in 1..Len(SuiteNames) : SuiteNames[i] = name

\* the next value of an integer primary key
NextRowId(rows) ==
    IF rows = {} THEN 1
    ELSE (CHOOSE r \in rows : \A q \in rows : q.id <= r.id).id + 1

SuiteFrame == UNCHANGED <<users, nextId, tokens, now, pend, settings, outbound>>

\* a suite row is added to the store (no route under src/ creates one)
create_suite(name) ==
    /\ Cardinality(suites) < MaxSuites
    /\ suites' = suites \cup
          {[id |-> NextRowId(suites), name |-> name, description |-> Some("Test suite"),
            category |-> "API", enabled |-> TRUE]}
    /\ resp' = Event("create_suite", "fixture")
    /\ UNCHANGED <<cases, runs>>
    /\ SuiteFrame

\* a test case row is added under an existing suite
create_test_case(suite_id) ==
    /\ Cardinality(cases) < MaxCases
    /\ \E s \in suites : s.id = suite_id
    /\ cases' = cases \cup {[id |-> NextRowId(cases), suite_id |-> suite_id]}
    /\ resp' = Event("create_test_case", "fixture")
    /\ UNCHANGED <<suites, runs>>
    /\ SuiteFrame

\* a test case row is removed
delete_test_case(id) ==
    /\ \E k \in cases : k.id = id
    /\ cases' = {k \in cases : k.id # id}
    /\ resp' = Event("delete_test_case", "fixture")
    /\ UNCHANGED <<suites, runs>>
    /\ SuiteFrame

\* mutant: the count has no where clause
CountCases_AllSuites(cs, suite_id) ==
    Cardinality(cs)

\* select(func.count(TestCase.id)).where(TestCase.suite_id == suite.id)
CountCases(cs, suite_id) ==
    Cardinality({k \in cs : k.suite_id = suite_id})

\* select(TestSuite).order_by(TestSuite.name): the rows in an order the
\* names permit (rows of equal name come in any order)
OrderedByName(ss) ==
    {q \in [1..Cardinality(ss) -> ss] :
        /\ \A i, j \in 1..Cardinality(ss) : i # j => q[i] # q[j]
        /\ \A i, j \in 1..Cardinality(ss) :
              i < j => NameRank(q[i].name) <= NameRank(q[j].name)}

\* GET /test-suites/list
list_test_suites(c, request) ==
    /\ pend[c] = Idle
    /\ \E q \in OrderedByName(suites) :
          resp' = Response("list_test_suites", c, request, 200, "",
                           Some([i \in 1..Len(q) |->
                                   [id |-> q[i].id, name |-> q[i].name,
                                    description |-> q[i].description,
                                    category |-> q[i].category,
                                    test_count |-> CountCases(cases, q[i].id)]]))
    /\ UNCHANGED <<suites, cases, runs>>
    /\ SuiteFrame

SuiteById(ss, suite_id) ==
    IF \E s \in ss : s.id = suite_id
    THEN Some(CHOOSE s \in ss : s.id = suite_id)
    ELSE None

\* GET /test-suites/{suite_id}
get_test_suite(c, request, suite_id) ==
    LET suite == SuiteById(suites, suite_id)
        req == [cookie |-> request.cookie, header |-> request.header, suite_id |-> suite_id]
    IN
    /\ pend[c] = Idle
    /\ IF IsNone(suite)
       THEN resp' = Response("get_test_suite", c, req, 404, "Test suite not found", None)
       ELSE resp' = Response("get_test_suite", c, req, 200, "",
                             Some([id |-> suite[1].id, name |-> suite[1].name,
                                   description |-> suite[1].description,
                                   category |-> suite[1].category,
                                   enabled |-> suite[1].enabled,
                                   test_count |-> CountCases(cases, suite[1].id)]))
    /\ UNCHANGED <<suites, cases, runs>>
    /\ SuiteFrame

\* GET /test-suites/{suite_id}/tests: the suite itself is not looked up
get_suite_tests(c, request, suite_id) ==
    LET req == [cookie |-> request.cookie, header |-> request.header, suite_id |-> suite_id] IN
    /\ pend[c] = Idle
    /\ resp' = Response("get_suite_tests", c, req, 200, "",
                        Some({k.id : k \in {k \in cases : k.suite_id = suite_id}}))
    /\ UNCHANGED <<suites, cases, runs>>
    /\ SuiteFrame

(************************* test runs ***************************************)
\* mutant: an empty case list is accepted
EmptyCaseList_Accepted(test_case_ids) ==
    FALSE

EmptyCaseList(test_case_ids) ==
    test_case_ids = {}

TestRun(id, trigger, case_ids) ==
    [id |-> id, trigger |-> trigger, status |-> "pending",
     total_tests |-> Cardinality(case_ids)]

RunView(run) ==
    [id |-> run.id, trigger |-> run.trigger, status |-> run.status,
     total_tests |-> run.total_tests]

\* POST /test-runs/ with a list of case ids
create_test_run(c, request, test_case_ids) ==
    LET current_user == get_current_user(users, now, request)
        req == [cookie |-> request.cookie, header |-> request.header,
                test_case_ids |-> test_case_ids, trigger |-> "manual"]
        run == TestRun(NextRowId(runs), "manual", test_case_ids)
    IN
    /\ pend[c] = Idle
    /\ IF IsNone(current_user)
       THEN /\ resp' = Response("create_test_run", c, req, 401, "Not authenticated", None)
            /\ UNCHANGED runs
       ELSE IF EmptyCaseList(test_case_ids)
       THEN /\ resp' = Response("create_test_run", c, req, 400, "No test cases specified", None)
            /\ UNCHANGED runs
       ELSE /\ Cardinality(runs) < MaxRuns
            /\ runs' = runs \cup {run}
            /\ resp' = Response("create_test_run", c, req, 200, "", Some(RunView(run)))
    /\ UNCHANGED <<suites, cases>>
    /\ SuiteFrame

\* POST /test-runs/suite/{suite_id}: a run over all cases of the suite
create_suite_run(c, request, suite_id) ==
    LET current_user == get_current_user(users, now, request)
        req == [cookie |-> request.cookie, header |-> request.header, suite_id |-> suite_id]
        run == TestRun(NextRowId(runs), "manual",
                       {k.id : k \in {k \in cases : k.suite_id = suite_id}})
    IN
    /\ pend[c] = Idle
    /\ IF IsNone(current_user)
       THEN /\ resp' = Response("create_suite_run", c, req, 401, "Not authenticated", None)
            /\ UNCHANGED runs
       ELSE IF IsNone(SuiteById(suites, suite_id))
       THEN /\ resp' = Response("create_suite_run", c, req, 404, "Test suite not found", None)
            /\ UNCHANGED runs
       ELSE /\ Cardinality(runs) < MaxRuns
            /\ runs' = runs \cup {run}
            /\ resp' = Response("create_suite_run", c, req, 200, "", Some(RunView(run)))
    /\ UNCHANGED <<suites, cases>>
    /\ SuiteFrame

\* request bodies tried against POST /api/settings
FullPayload ==
    [aiops_url |-> Some("http://aiops.example.com"), api_token |-> Some("new_token_123"),
     ssh_host |-> Some("aiops.example.com"), ssh_port |-> Some(2222),
     test_path |-> Some("/var/tests"), timeout |-> Some(60),
     parallel_execution |-> Some(TRUE), max_parallel |-> Some(10),
     retry_failed |-> Some(TRUE), retry_count |-> Some(5)]

Variations ==
    {<<"aiops_url", None>>, <<"aiops_url", Some("")>>, <<"api_token", None>>,
     <<"ssh_host", None>>, <<"ssh_port", None>>, <<"ssh_port", Some(0)>>,
     <<"ssh_port", Some(22)>>, <<"test_path", None>>, <<"timeout", None>>,
     <<"timeout", Some(0)>>, <<"timeout", Some(30)>>,
     <<"parallel_execution", Some(FALSE)>>, <<"parallel_execution", None>>,
     <<"max_parallel", Some(5)>>, <<"retry_failed", Some(FALSE)>>,
     <<"retry_count", Some(3)>>}

Restrict(raw, fs) == [f \in fs |-> raw[f]]

Payloads ==
    {FullPayload}
    \cup {[FullPayload EXCEPT ![v[1]] = v[2]] : v \in Variations}
    \cup {Restrict(FullPayload, {"aiops_url"}),
          Restrict(FullPayload, {"aiops_url", "timeout", "parallel_execution",
                                 "max_parallel", "retry_failed", "retry_count"})}

Urls == {"", "http://aiops.example.com"}

(************************* specifications **********************************)
Init ==
    /\ users = {}
    /\ nextId = 1
    /\ tokens = {}
    /\ now = 0
    /\ pend = [c \in Clients |-> Idle]
    /\ resp = Event("init", "none")
    /\ settings = <<>>
    /\ outbound = 0
    /\ suites = {}
    /\ cases = {}
    /\ runs = {}

AuthStep(c) ==
    \/ \E username \in Usernames, password \in Passwords :
          login_for_access_token(c, username, password)
    \/ \E request \in Requests : get_current_user_info(c, request)
    \/ \E username \in Usernames, email \in Emails, password \in {"pw"} :
          register_user_begin(c, username, email, password)
    \/ register_user_check_email(c)
    \/ register_user_commit(c)
    \/ \E request \in Requests, user_id \in UserIds : delete_user_begin(c, request, user_id)
    \/ delete_user_commit(c)

EnvStep ==
    \/ create_admin_user
    \/ \E id \in UserIds : DeactivateUser(id)
    \/ Tick

\* one client: requests are served one after another
Next == AuthStep("c1") \/ EnvStep

Spec == Init /\ [][Next]_vars

\* two clients: their registrations and deletions interleave at the awaits
ConcStep(c) ==
    \/ \E username \in Usernames : login_for_access_token(c, username, "admin")
    \/ \E username \in Usernames, email \in Emails, password \in {"pw"} :
          register_user_begin(c, username, email, password)
    \/ register_user_check_email(c)
    \/ register_user_commit(c)
    \/ \E request \in Requests, user_id \in UserIds : delete_user_begin(c, request, user_id)
    \/ delete_user_commit(c)

NextConc == (\E c \in Clients : ConcStep(c)) \/ create_admin_user

SpecConc == Init /\ [][NextConc]_vars

SettingsStep(c) ==
    \/ login_for_access_token(c, "admin", "admin")
    \/ \E request \in Requests : get_settings(c, request)
    \/ \E request \in Requests, raw \in Payloads : save_settings_begin(c, request, raw)
    \/ save_settings_commit(c)
    \/ \E request \in Requests, url \in Urls, token \in {None, Some("new_token_123")} :
          test_connection(c, request, url, token)

NextSettings == SettingsStep("c1") \/ create_admin_user

SpecSettings == Init /\ [][NextSettings]_vars

\* two clients whose saves interleave between the select and the commit
ConcPayloads ==
    {FullPayload,
     [FullPayload EXCEPT !.ssh_port = Some(22)],
     [FullPayload EXCEPT !.timeout = Some(30)]}

SaveStep(c) ==
    \/ login_for_access_token(c, "admin", "admin")
    \/ \E request \in Requests : get_settings(c, request)
    \/ \E request \in Requests, raw \in ConcPayloads : save_settings_begin(c, request, raw)
    \/ save_settings_commit(c)

NextSaveConc == (\E c \in Clients : SaveStep(c)) \/ create_admin_user

SpecSaveConc == Init /\ [][NextSaveConc]_vars

\* suites and runs: one client, rows added and removed around its requests
SuiteIds == 1..(MaxSuites + 1)
CaseIds == 1..MaxCases

\* the cookie is absent or holds an issued token
CookieRequests == {Request(ck, None) : ck \in {None} \cup {Some(t) : t \in tokens}}

SuiteStep(c) ==
    \/ \E request \in CookieRequests : list_test_suites(c, request)
    \/ \E request \in CookieRequests, suite_id \in SuiteIds : get_test_suite(c, request, suite_id)
    \/ \E request \in CookieRequests, suite_id \in SuiteIds : get_suite_tests(c, request, suite_id)

SuiteEnvStep ==
    \/ \E i \in 1..Len(SuiteNames) : create_suite(SuiteNames[i])
    \/ \E suite_id \in SuiteIds : create_test_case(suite_id)
    \/ \E id \in CaseIds : delete_test_case(id)

NextSuites == SuiteStep("c1") \/ SuiteEnvStep

SpecSuites == Init /\ [][NextSuites]_vars

RunStep(c) ==
    \/ login_for_access_token(c, "admin", "admin")
    \/ \E request \in CookieRequests, test_case_ids \in {{}} \cup {{k.id} : k \in cases} :
          create_test_run(c, request, test_case_ids)
    \/ \E request \in CookieRequests, suite_id \in SuiteIds :
          create_suite_run(c, request, suite_id)

RunEnvStep ==
    \/ create_admin_user
    \/ create_suite(SuiteNames[1])
    \/ \E suite_id \in SuiteIds : create_test_case(suite_id)

NextRuns == RunStep("c1") \/ RunEnvStep

SpecRuns == Init /\ [][NextRuns]_vars

\* user administration: one client registers, logs in, lists and deletes
AdminStep(c) ==
    \/ \E username \in Usernames, password \in Passwords :
          login_for_access_token(c, username, password)
    \/ \E username \in Usernames, email \in Emails, password \in {"pw"} :
          register_user_begin(c, username, email, password)
    \/ register_user_check_email(c)
    \/ register_user_commit(c)
    \/ \E request \in CookieRequests : list_users(c, request)
    \/ \E request \in CookieRequests, user_id \in UserIds : delete_user_begin(c, request, user_id)
    \/ delete_user_commit(c)

NextAdmin == AdminStep("c1") \/ create_admin_user

SpecAdmin == Init /\ [][NextAdmin]_vars

\* several admins: two clients log in and delete while an operator promotes
AdminConcStep(c) ==
    \/ \E username \in Usernames, password \in Passwords :
          login_for_access_token(c, username, password)
    \/ register_user_begin(c, "alice", "alice@example.com", "pw")
    \/ register_user_check_email(c)
    \/ register_user_commit(c)
    \/ \E request \in CookieRequests, user_id \in UserIds : delete_user_begin(c, request, user_id)
    \/ delete_user_commit(c)

NextAdminConc ==
    \/ \E c \in Clients : AdminConcStep(c)
    \/ create_admin_user
    \/ \E id \in UserIds : PromoteUser(id)

SpecAdminConc == Init /\ [][NextAdminConc]_vars

\* every route that reads or writes the users table, one client
Forms ==
    {[username |-> "alice", email |-> "alice@example.com", password |-> "pw"],
     [username |-> "alice", email |-> "alice@example.com", password |-> "pw",
      is_admin |-> TRUE, is_active |-> FALSE],
     [username |-> "admin", email |-> "alice@example.com", password |-> "pw",
      is_admin |-> TRUE, is_active |-> FALSE]}

UsersApiStep(c) ==
    \/ \E form \in Forms : register_user_form(c, form)
    \/ register_user_check_email(c)
    \/ register_user_commit(c)
    \/ \E username \in Usernames, password \in Passwords :
          login_for_access_token(c, username, password)
    \/ \E username \in Usernames : login(c, username, "pw")
    \/ \E request \in CookieRequests : logout(c, request)
    \/ \E request \in CookieRequests : get_current_user_info(c, request)
    \/ \E request \in CookieRequests : list_users(c, request)
    \/ \E request \in CookieRequests, user_id \in UserIds : delete_user_begin(c, request, user_id)
    \/ delete_user_commit(c)

NextUsersApi == UsersApiStep("c1") \/ create_admin_user

SpecUsersApi == Init /\ [][NextUsersApi]_vars

\* the two login routes step by step, with accounts coming, being
\* deactivated and time passing in between
LoginStep(c) ==
    \/ \E username \in Usernames, password \in Passwords : login_begin(c, username, password)
    \/ \E username \in Usernames, password \in Passwords :
          login_for_access_token_begin(c, username, password)
    \/ login_commit(c)
    \/ login_finish(c)
    \/ register_user_begin(c, "alice", "alice@example.com", "pw")
    \/ register_user_check_email(c)
    \/ register_user_commit(c)

LoginEnvStep ==
    \/ create_admin_user
    \/ \E id \in UserIds : DeactivateUser(id)
    \/ Tick

NextLogin == LoginStep("c1") \/ LoginEnvStep

SpecLogin == Init /\ [][NextLogin]_vars

\* cookies a browser can send: nothing, an issued token, a forged or a
\* malformed one
SessionRequests ==
    {Request(ck, None) :
        ck \in {None} \cup {Some(t) : t \in tokens \cup {ForgedToken, MalformedToken}}}

SessionStep(c) ==
    \/ \E password \in Passwords : login(c, "admin", password)
    \/ \E request \in SessionRequests : logout(c, request)
    \/ \E request \in SessionRequests : get_current_user_info(c, request)

NextSession ==
    \/ SessionStep("c1")
    \/ \E data \in ClaimSets : issue_token(data)
    \/ create_admin_user
    \/ \E id \in UserIds : DeactivateUser(id)
    \/ Tick

SpecSession == Init /\ [][NextSession]_vars

\* app/auth.py on its own: tokens are created, verified and left to expire
NextToken ==
    \/ \E data \in ClaimSets, expires_delta \in ExpiresDeltas, issued_at \in Instants,
          kind \in {"issued", "bad_signature", "malformed"} :
          verify_round_trip(data, expires_delta, issued_at, kind)
    \/ Tick

SpecToken == Init /\ [][NextToken]_vars

(***************************************************************************)
(* Claims                                                                  *)
(***************************************************************************)

\* C1: POST /auth/token answers 200 with a body {access_token, token_type:
\* "bearer"} exactly when a user with that username exists, the password
\* matches its stored hash and it is active; otherwise it answers 401 with no
\* body and issues no token.
C1_TokenIffValidActive ==
    [][resp'.op = "token" =>
        LET valid == \E u \in users :
                        /\ u.username = resp'.req.username
                        /\ verify_password(resp'.req.password, u.hashed_password)
                        /\ u.is_active
        IN
        /\ valid =>
              /\ resp'.status = 200
              /\ ~IsNone(resp'.body)
              /\ DOMAIN resp'.body[1] = {"access_token", "token_type"}
              /\ resp'.body[1].token_type = "bearer"
              /\ resp'.body[1].access_token \in tokens'
              /\ resp'.body[1].access_token.claims.sub = resp'.req.username
        /\ ~valid =>
              /\ resp'.status = 401
              /\ IsNone(resp'.body)
              /\ tokens' = tokens
    ]_vars

C1_Witness ==
    /\ resp.op = "token"
    /\ resp.status = 200
    /\ resp.body[1].token_type = "bearer"

\* the other two cases of C1 are reached as well
C1_WitnessInactive == resp.op = "token" /\ resp.status = 401 /\ resp.detail = "Inactive account"

\* C2: a token issued for user U resolves GET /auth/me to U's own id,
\* username, email, is_admin and last_login, and the response never holds
\* hashed_password.
C2_MeIsTokenOwner ==
    resp.op = "me" /\ resp.status = 200 =>
        LET t == resp.req.cookie[1] IN
        /\ \E u \in users : u.id = t.issued_to /\ resp.body[1] = UserInfo(u)
        /\ "hashed_password" \notin DOMAIN resp.body[1]

\* C3: a valid token in the Authorization: Bearer header, with no
\* access_token cookie, authenticates the request: /auth/me answers 200.
C3_HeaderAuthenticates ==
    resp.op = "me" /\ IsNone(resp.req.cookie) /\ ~IsNone(resp.req.header) =>
        LET payload == verify_token(resp.req.header[1], now) IN
        (~IsNone(payload) /\ ~IsNone(UserByName(users, payload[1].sub))) => resp.status = 200

\* C4: register_user with a username that already exists fails with 400
\* "Username already exists" (whether or not the email exists too: the
\* username is checked first); with an email that already exists it fails
\* with 400 "Email already exists"; either way the users are unchanged.
C4_RegisterDuplicate ==
    [][\A c \in Clients :
        /\ (/\ pend[c] = Idle
            /\ \/ resp'.op = "register" /\ resp'.client = c
               \/ pend'[c].op = "register")
           => LET req == IF pend'[c].op = "register" THEN pend'[c].req ELSE resp'.req IN
              (\E u \in users : u.username = req.username) =>
                  /\ resp'.op = "register"
                  /\ resp'.status = 400
                  /\ resp'.detail = "Username already exists"
                  /\ users' = users
                  /\ pend'[c] = Idle
        /\ (/\ pend[c].op = "register"
            /\ pend[c].pc = "email"
            /\ pend'[c] # pend[c])
           => ((\E u \in users : u.email = pend[c].req.email) =>
                  /\ resp'.op = "register"
                  /\ resp'.status = 400
                  /\ resp'.detail = "Email already exists"
                  /\ users' = users
                  /\ pend'[c] = Idle)
    ]_vars

C4_Witness ==
    /\ resp.op = "register"
    /\ resp.status = 400
    /\ resp.detail = "Username already exists"
    /\ \E u \in users : u.email = resp.req.email

C4_WitnessEmail == resp.op = "register" /\ resp.detail = "Email already exists"

\* C5: in every reachable state, whatever the interleaving of register_user
\* and delete_user requests, no two users share a username and no two users
\* share an email.
C5_UniqueUsernameEmail ==
    \A u, v \in users : u # v => u.username # v.username /\ u.email # v.email

\* two registrations passed both checks and the second commit was refused
C5_Witness ==
    /\ resp.op = "register"
    /\ resp.status = 500
    /\ \E u \in users :
          /\ ~u.is_admin
          /\ u.username = resp.req.username \/ u.email = resp.req.email

\* C6: delete_user by an admin on their own id fails with 400, by a non-admin
\* on any id fails with 403; in both cases no user is removed (and only a
\* request of an admin for another user's id goes on to the delete).
C6_DeleteSelfOrNonAdmin ==
    [][\A c \in Clients :
        /\ (resp'.op = "delete" /\ resp'.client = c /\ pend[c] = Idle) =>
              LET cu == get_current_user(users, now, resp'.req) IN
              /\ (~IsNone(cu) /\ cu[1].is_admin /\ resp'.req.user_id = cu[1].id) =>
                    resp'.status = 400 /\ users' = users
              /\ (~IsNone(cu) /\ ~cu[1].is_admin) =>
                    resp'.status = 403 /\ users' = users
        /\ (pend[c] = Idle /\ pend'[c].op = "delete") =>
              LET cu == get_current_user(users, now, pend'[c].req) IN
              /\ ~IsNone(cu)
              /\ cu[1].is_admin
              /\ pend'[c].req.user_id # cu[1].id
              /\ users' = users
    ]_vars

C6_Witness ==
    /\ resp.op = "delete"
    /\ resp.status = 400
    /\ \E u \in users : u.id = resp.req.user_id /\ u.is_admin

C6_WitnessNonAdmin == resp.op = "delete" /\ resp.status = 403

IsFullPayload(raw) ==
    /\ DOMAIN raw = Fields
    /\ \A f \in Fields : ~IsNone(raw[f])

C8_SaveThenGetEchoes ==
    [][(/\ resp.op = "save_settings"
        /\ resp.status = 200
        /\ IsFullPayload(resp.req.payload)
        /\ resp'.op = "get_settings") =>
        /\ resp'.status = 200
        /\ \A f \in Fields : resp'.body[1][f] = resp.req.payload[f][1]
    ]_vars

\* C9: get_settings, save_settings and test_connection called without a
\* valid token each answer 401 with no data.
HasValidToken(req) ==
    \E tk \in {req.cookie, req.header} :
        /\ ~IsNone(tk)
        /\ ~IsNone(verify_token(tk[1], now))
        /\ ~IsNone(UserByName(users, verify_token(tk[1], now)[1].sub))

C9_SettingsSessionGated ==
    (resp.op \in {"get_settings", "save_settings", "test_connection"} /\ ~HasValidToken(resp.req)) =>
        resp.status = 401 /\ IsNone(resp.body)

\* C10: test_connection with an empty url fails with 400 "URL is required"
\* and no outbound HTTP request is issued for it.
C10_EmptyUrlFailsFast ==
    [][(resp'.op = "test_connection" /\ resp'.req.url = "") =>
        /\ resp'.status = 400
        /\ resp'.detail = "URL is required"
        /\ outbound' = outbound
    ]_vars

C10_Witness ==
    /\ resp.op = "test_connection"
    /\ resp.req.url = ""
    /\ resp.status = 400

\* C11: test_connection reports success (success = true, with the body in the
\* response field) for every 2xx status the target's /health answers with,
\* and success = false together with the status code for every other status.
C11_SuccessOnEvery2xx ==
    (/\ resp.op = "test_connection"
     /\ "probe" \in DOMAIN resp
     /\ resp.probe.kind = "response"
     /\ resp.probe.content_type = "application/json" => resp.probe.json_ok)
    => /\ resp.status = 200
       /\ ~IsNone(resp.body)
       /\ IF resp.probe.status_code \in 200..299
          THEN /\ resp.body[1].success = TRUE
               /\ "response" \in DOMAIN resp.body[1]
          ELSE /\ resp.body[1].success = FALSE
               /\ resp.body[1].status_code = resp.probe.status_code

\* C12: a probe that fails with an exception ends in exactly one error
\* response: ConnectError gives 503, TimeoutException gives 504, any other
\* exception gives 500; the probe was sent once and no stored state changed.
C12_ProbeFailureOutcome ==
    [][(/\ resp'.op = "test_connection"
        /\ "probe" \in DOMAIN resp'
        /\ \/ resp'.probe.kind # "response"
           \/ resp'.probe.content_type = "application/json" /\ ~resp'.probe.json_ok)
       => /\ resp'.status = (CASE resp'.probe.kind = "ConnectError" -> 503
                               [] resp'.probe.kind = "TimeoutException" -> 504
                               [] OTHER -> 500)
          /\ IsNone(resp'.body)
          /\ outbound' = outbound + 1
          /\ settings' = settings
          /\ users' = users
          /\ tokens' = tokens
          /\ pend' = pend
    ]_vars

C12_Witness ==
    resp.op = "test_connection" /\ "probe" \in DOMAIN resp
    /\ resp.probe.kind = "TimeoutException" /\ resp.status = 504

C12_WitnessConnect ==
    resp.op = "test_connection" /\ "probe" \in DOMAIN resp
    /\ resp.probe.kind = "ConnectError" /\ resp.status = 503

C13_WitnessExpired ==
    /\ resp.op = "verify_token"
    /\ resp.req.kind = "issued"
    /\ now > resp.req.token.claims.exp
    /\ IsNone(resp.result)

\* the session resolver accepts the token
Accepted(us, t, token) ==
    ~IsNone(get_current_user(us, t, Request(Some(token), None)))

\* C14: a logout, or the account's is_active becoming false, does not stop
\* the resolver from accepting an issued token; GET /auth/me answers 200 for
\* an unexpired issued token whose subject exists, active or not, while the
\* login form refuses an inactive account.
C14_NoRevocation ==
    [][/\ resp'.op \in {"logout", "deactivate"} =>
            \A token \in tokens :
                Accepted(users, now, token) => Accepted(users', now', token)
       /\ (/\ resp'.op = "me"
           /\ ~IsNone(resp'.req.cookie)
           /\ resp'.req.cookie[1] \in tokens
           /\ now <= resp'.req.cookie[1].claims.exp
           /\ "sub" \in DOMAIN resp'.req.cookie[1].claims
           /\ \E u \in users : u.username = resp'.req.cookie[1].claims.sub)
          => resp'.status = 200
       /\ (resp'.op = "login" /\ resp'.status = 302) =>
            \E u \in users : u.username = resp'.req.username /\ u.is_active
    ]_vars

C14_Witness ==
    /\ resp.op = "me"
    /\ resp.status = 200
    /\ \E u \in users : u.username = resp.body[1].username /\ ~u.is_active

C14_WitnessLogout ==
    /\ resp.op = "logout"
    /\ ~IsNone(resp.req.cookie)
    /\ resp.req.cookie[1] \in tokens
    /\ Accepted(users, now, resp.req.cookie[1])

C15_WitnessNoUser ==
    /\ resp.op = "me"
    /\ resp.status = 401
    /\ ~IsNone(resp.req.cookie)
    /\ resp.req.cookie[1] \in tokens
    /\ now <= resp.req.cookie[1].claims.exp
    /\ "sub" \in DOMAIN resp.req.cookie[1].claims
    /\ resp.req.cookie[1].claims.sub = "alice"

C15_WitnessResolved ==
    /\ resp.op = "me"
    /\ resp.status = 200
    /\ resp.body[1].username = resp.req.cookie[1].claims.sub

\* C16: the settings table holds at most one row in every reachable state,
\* whatever the order and interleaving of the save_settings requests.
C16_SettingsSingleton ==
    Len(settings) <= 1

\* C17: a save_settings request of an authenticated caller whose body the
\* SettingsUpdate schema accepts (explicit nulls included) answers 200, and
\* afterwards every stored field is the body's value, or the schema default
\* of a field left out, with updated_by the caller's username.
C17_SaveStoresPayload ==
    (/\ resp.op = "save_settings"
     /\ SchemaAccepts(resp.req.payload)
     /\ ~IsNone(get_current_user(users, now, resp.req)))
    => /\ resp.status = 200
       /\ Len(settings) = 1
       /\ \A f \in Fields : settings[1][f] = SettingsUpdate(resp.req.payload)[f]
       /\ settings[1].updated_by =
             Some(get_current_user(users, now, resp.req)[1].username)

\* C18: list_test_suites answers with every suite exactly once, ordered by
\* name, each with test_count the number of test case rows of that suite;
\* get_test_suite answers 404 for an id no suite has and otherwise 200 with
\* the same count.
C18_SuiteCounts ==
    /\ resp.op = "list_test_suites" =>
          LET body == resp.body[1] IN
          /\ resp.status = 200
          /\ Len(body) = Cardinality(suites)
          /\ \A s \in suites :
                \E i \in 1..Len(body) :
                    /\ body[i].id = s.id
                    /\ body[i].name = s.name
                    /\ \A j \in 1..Len(body) : body[j].id = s.id => j = i
                    /\ body[i].test_count = Cardinality({k \in cases : k.suite_id = s.id})
          /\ \A i, j \in 1..Len(body) :
                i < j => NameRank(body[i].name) <= NameRank(body[j].name)
    /\ resp.op = "get_test_suite" =>
          IF \E s \in suites : s.id = resp.req.suite_id
          THEN /\ resp.status = 200
               /\ resp.body[1].id = resp.req.suite_id
               /\ resp.body[1].test_count =
                     Cardinality({k \in cases : k.suite_id = resp.req.suite_id})
          ELSE resp.status = 404 /\ resp.detail = "Test suite not found"

C18_Witness ==
    /\ resp.op = "list_test_suites"
    /\ Len(resp.body[1]) = 2
    /\ resp.body[1][1].id > resp.body[1][2].id
    /\ resp.body[1][1].test_count = 2
    /\ resp.body[1][2].test_count = 1

C18_WitnessNotFound ==
    resp.op = "get_test_suite" /\ resp.status = 404 /\ suites # {}

\* C19: for an authenticated caller, creating a run with an empty case-id
\* list answers 400 and adds no run; creating a run for an existing suite
\* with N cases answers with a new run whose total_tests is N; creating a run
\* for a suite id no suite has answers 404 and adds no run.
C19_RunCreation ==
    [][/\ (/\ resp'.op = "create_test_run"
           /\ ~IsNone(get_current_user(users, now, resp'.req))
           /\ resp'.req.test_case_ids = {})
          => resp'.status = 400 /\ runs' = runs
       /\ (/\ resp'.op = "create_suite_run"
           /\ ~IsNone(get_current_user(users, now, resp'.req)))
          => IF \E s \in suites : s.id = resp'.req.suite_id
             THEN /\ resp'.status = 200
                  /\ resp'.body[1].total_tests =
                        Cardinality({k \in cases : k.suite_id = resp'.req.suite_id})
                  /\ \E run \in runs' \ runs :
                        /\ run.id = resp'.body[1].id
                        /\ run.total_tests = resp'.body[1].total_tests
                        /\ runs' = runs \cup {run}
             ELSE resp'.status = 404 /\ runs' = runs
    ]_vars

C19_Witness ==
    /\ resp.op = "create_suite_run"
    /\ resp.status = 200
    /\ resp.body[1].total_tests = 2

C19_WitnessEmpty ==
    resp.op = "create_test_run" /\ resp.status = 400

C19_WitnessNotFound ==
    resp.op = "create_suite_run" /\ resp.status = 404

\* C20: delete_user decides in a fixed order: a caller that is not
\* authenticated gets 401; else a caller that is not an admin gets 403, also
\* when the target id has no row; else a missing target gives 404; else the
\* caller's own id gives 400; else the target row, and only it, is removed.
\* list_users answers 403 to an authenticated caller that is not an admin.
C20_DeleteDecisionOrder ==
    [][/\ resp'.op = "delete" =>
            LET caller == get_current_user(users, now, resp'.req)
                user_id == resp'.req.user_id
            IN
            IF IsNone(caller)
            THEN resp'.status = 401 /\ users' = users
            ELSE IF ~caller[1].is_admin
            THEN resp'.status = 403 /\ users' = users
            ELSE IF ~\E u \in users : u.id = user_id
            THEN resp'.status = 404 /\ users' = users
            ELSE IF user_id = caller[1].id
            THEN resp'.status = 400 /\ users' = users
            ELSE /\ resp'.status = 200
                 /\ users' = {u \in users : u.id # user_id}
                 /\ Cardinality(users') = Cardinality(users) - 1
       /\ (/\ resp'.op = "list_users"
           /\ ~IsNone(get_current_user(users, now, resp'.req))
           /\ ~get_current_user(users, now, resp'.req)[1].is_admin)
          => resp'.status = 403 /\ users' = users
    ]_vars

C20_Witness ==
    /\ resp.op = "delete"
    /\ resp.status = 403
    /\ ~\E u \in users : u.id = resp.req.user_id

C20_WitnessRemoved ==
    /\ resp.op = "delete"
    /\ resp.status = 200
    /\ users # {}
    /\ ~\E u \in users : u.id = resp.req.user_id

C20_WitnessList ==
    resp.op = "list_users" /\ resp.status = 403

\* C21: concurrent save_settings requests on an existing row are
\* last-write-wins: the row a completed save leaves holds that save's payload
\* in every field, or is in every field the row the save before it left;
\* it is never a mixture of the fields of two payloads.
C21_LastWriteWins ==
    [][(/\ resp'.op = "save_settings"
        /\ resp'.status = 200
        /\ pend[resp'.client].op = "save"
        /\ pend[resp'.client].row # 0)
       => LET p == pend[resp'.client]
              after == settings'[p.row]
          IN
          \/ \A f \in Fields : after[f] = p.settings_data[f]
          \/ \A f \in Fields : after[f] = settings[p.row][f]
    ]_vars

\* C22: when an admin user exists, it still exists after every step of a
\* delete_user request, whatever the interleaving of the requests: a delete
\* needs an admin caller, and the caller cannot delete itself.
C22_AdminRemains ==
    [][((\E u \in users : u.is_admin) /\ resp'.op = "delete")
       => \E u \in users' : u.is_admin
    ]_vars

\* C23: a token issued at login to an account never authenticates a request
\* as another account: whenever the session resolver accepts an issued token,
\* the user it resolves to has the id of the account the token was issued to.
C23_TokenBoundToAccount ==
    \A token \in tokens :
        LET user == get_current_user(users, now, Request(Some(token), None)) IN
        ~IsNone(user) => user[1].id = token.issued_to

\* the ids of the admin users
AdminIds(us) == {u.id : u \in {v \in us : v.is_admin}}

\* C24: register_user creates the user with is_admin false and is_active
\* true whatever the form carries, and no step of an HTTP request changes
\* is_admin of an existing user: the set of admin ids never gains a member
\* through the API.
C24_NoAdminThroughApi ==
    [][resp'.client \in Clients =>
        /\ AdminIds(users') \subseteq AdminIds(users)
        /\ \A u \in users' :
              IF \E v \in users : v.id = u.id
              THEN \E v \in users : v.id = u.id /\ v.is_admin = u.is_admin
              ELSE /\ ~u.is_admin
                   /\ u.is_active
                   /\ resp'.op = "register"
                   /\ u.username = resp'.req.username
    ]_vars

C24_Witness ==
    /\ resp.op = "register"
    /\ resp.status = 200
    /\ "is_admin" \in DOMAIN resp.req
    /\ resp.req.is_admin
    /\ \E u \in users : u.id = resp.body[1].id /\ ~u.is_admin /\ u.is_active

\* C25: a failed login through /auth/login or /auth/token (unknown user,
\* wrong password, inactive account) leaves every user record and every
\* token unchanged and answers without body or cookie; a successful login
\* changes nothing but last_login of the user who logged in, and that
\* change is already in the store when the token is created.
LoginOps == {"login", "token"}

C25_LoginWrites ==
    [][LET c == resp'.client IN
       /\ (resp'.op \in LoginOps /\ resp'.status = 401)
             => /\ users' = users /\ tokens' = tokens
                /\ IsNone(resp'.body)
       /\ resp'.op = "login_commit"
             => /\ tokens' = tokens
                /\ {u.id : u \in users'} = {u.id : u \in users}
                /\ \A u \in users' :
                      \/ u \in users
                      \/ /\ u.id = pend[c].user.id
                         /\ u.username = pend[c].req.username
                         /\ \E v \in users : u = [v EXCEPT !.last_login = u.last_login]
       /\ (resp'.op \in LoginOps /\ resp'.status \in {200, 302})
             => /\ users' = users
                /\ \E u \in users : /\ u.id = pend[c].user.id
                                    /\ u.last_login = pend[c].user.last_login
                                    /\ ~IsNone(u.last_login)
                /\ tokens' \ tokens \subseteq
                      {IF resp'.op = "login" THEN resp'.body[1].set_cookie[1]
                                             ELSE resp'.body[1].access_token}
      ]_vars

\* a form login has answered 302 with the cookie while the account that
\* logged in was deactivated after its credentials were checked, and another
\* account has never logged in
C25_Witness ==
    /\ resp.op = "login" /\ resp.status = 302
    /\ ~IsNone(resp.body[1].set_cookie)
    /\ \E u \in users : /\ u.username = resp.req.username
                        /\ ~IsNone(u.last_login) /\ ~u.is_active
    /\ \E u \in users : u.username # resp.req.username /\ IsNone(u.last_login)

\* a login has been refused for an inactive account that logged in earlier
C25_WitnessFailed ==
    /\ resp.op \in LoginOps /\ resp.status = 401
    /\ \E u \in users : /\ u.username = resp.req.username
                        /\ ~u.is_active /\ ~IsNone(u.last_login)

\* C26: every suite get operation answers 404 when the suite id does not
\* resolve (get_test_suite and get_suite_tests alike); for a suite that
\* exists get_suite_tests returns exactly the ids of the test cases whose
\* suite_id is that suite.
C26_SuiteGetsNotFound ==
    resp.op \in {"get_test_suite", "get_suite_tests"} =>
        IF IsNone(SuiteById(suites, resp.req.suite_id))
        THEN resp.status = 404
        ELSE /\ resp.status = 200
             /\ resp.op = "get_suite_tests" =>
                   resp.body = Some({k.id : k \in {k \in cases : k.suite_id = resp.req.suite_id}})

\* C27: create_admin_user is idempotent: run when no user named "admin"
\* exists it adds exactly one user, admin / admin@aiops.local with
\* is_admin and is_active set; run when a user named "admin" exists it
\* creates and changes nothing; so exactly one user named "admin" is left.
C27_CreateAdminIdempotent ==
    [][resp'.client = "script" =>
        /\ IF IsNone(UserByName(users, "admin"))
           THEN \E u \in users' :
                   /\ u \notin users
                   /\ users' = users \cup {u}
                   /\ u.username = "admin" /\ u.email = "admin@aiops.local"
                   /\ u.is_admin /\ u.is_active
           ELSE users' = users
        /\ Cardinality({u \in users' : u.username = "admin"}) = 1 ]_vars

\* C28: after create_admin_user has returned, from any state reached through
\* register_user and delete_user, a user named "admin" with is_admin set
\* exists.
C28_DefaultAdminAvailable ==
    [][resp'.op \in {"create_admin_exists", "create_admin_created"} =>
        \E u \in users' : u.username = "admin" /\ u.is_admin ]_vars

====
